---- MODULE Spec2Model ----
(***************************************************************************)
(* A model of the validitype validator engine (src/src/rules.ts, lines     *)
(* 18-114: joinObjectPaths, addRule, optionValidator, addSubValidator,     *)
(* makeValidatorBuilder, validatorFor) together with the checks and        *)
(* subjects of its test-suite (src/unnamed/part_001).                      *)
(*                                                                         *)
(* The program state is the heap of validator closures built so far, the   *)
(* caller's error collector array, and the record of the last validation   *)
(* call.  A validation call is a synchronous recursive descent, modelled   *)
(* by the recursive operator Eval, which threads the collector contents    *)
(* and a log of the caller-supplied functions it invoked.                  *)
(***************************************************************************)
EXTENDS Integers, Sequences, FiniteSets, TLC

VARIABLES validators, errorCollector, call

vars == <<validators, errorCollector, call>>

(***************************************************************************)
(* Bounds of the model.                                                    *)
(***************************************************************************)
MaxValidators == 2
MaxChain == 3

(***************************************************************************)
(* JavaScript values.  Every value is a record of the same shape so that   *)
(* any two values can be compared: t is the result of typeof (with "null"  *)
(* kept apart from "object"), n the number (or 0/1 for a boolean), s the   *)
(* string, f the own properties of an object.                              *)
(***************************************************************************)
Undefined == [t |-> "undefined", n |-> 0, s |-> "", f |-> <<>>]
Null == [t |-> "null", n |-> 0, s |-> "", f |-> <<>>]
Num(k) == [t |-> "number", n |-> k, s |-> "", f |-> <<>>]
Str(str) == [t |-> "string", n |-> 0, s |-> str, f |-> <<>>]
Bool(b) == [t |-> "boolean", n |-> IF b THEN 1 ELSE 0, s |-> "", f |-> <<>>]
Obj(props) == [t |-> "object", n |-> 0, s |-> "", f |-> props]

True == Bool(TRUE)
False == Bool(FALSE)

\* typeof x
TypeOf(x) == IF x.t = "null" THEN "object" ELSE x.t

\* ToBoolean(x): the truthiness used by !, && and ||
Truthy(x) ==
    CASE x.t = "boolean" -> x.n = 1
      [] x.t = "number" -> x.n # 0
      [] x.t = "string" -> x.s # ""
      [] x.t = "object" -> TRUE
      [] OTHER -> FALSE

\* x.k or x[k] throws a TypeError exactly when x is null or undefined
Nullish(x) == x.t \in {"null", "undefined"}

\* x[k] for a value that is not null or undefined
GetProp(x, k) ==
    CASE x.t = "object" -> IF k \in DOMAIN x.f THEN x.f[k] ELSE Undefined
      [] x.t = "string" -> IF k = "length" THEN Num(Len(x.s)) ELSE Undefined
      [] OTHER -> Undefined

\* x.hasOwnProperty(k) for a value that is not null or undefined: a
\* primitive is boxed, and only a String box has an own property (length)
HasOwnProperty(x, k) ==
    CASE x.t = "object" -> k \in DOMAIN x.f
      [] x.t = "string" -> k = "length"
      [] OTHER -> FALSE

\* x > 0 (the strings of the model are not numeric)
GreaterThanZero(x) ==
    CASE x.t = "number" -> x.n > 0
      [] x.t = "boolean" -> x.n > 0
      [] OTHER -> FALSE

(***************************************************************************)
(* Paths.  A path argument is undefined or a string.                       *)
(***************************************************************************)
NoPath == [def |-> FALSE, s |-> ""]
Path(str) == [def |-> TRUE, s |-> str]

\* path || ""
PathOrEmpty(p) == IF p.def /\ p.s # "" THEN p ELSE Path("")

RECURSIVE JoinDot(_)
JoinDot(strs) ==
    IF Len(strs) = 0 THEN ""
    ELSE IF Len(strs) = 1 THEN strs[1]
    ELSE strs[1] \o "." \o JoinDot(Tail(strs))

\* paths.filter(x => x !== undefined).join('.')
joinObjectPaths(p, k) ==
    Path(JoinDot(IF p.def THEN <<p.s, k>> ELSE <<k>>))

(***************************************************************************)
(* The caller-supplied rules: a Check paired with an ErrorMessageBuilder.  *)
(* A call of a caller-supplied function either returns a value or throws.  *)
(***************************************************************************)
Returned(v) == [threw |-> FALSE, v |-> v]
Threw == [threw |-> TRUE, v |-> Undefined]

\* a && b
And(a, b) == IF Truthy(a) THEN b ELSE a

\* !!a
NotNot(a) == Bool(Truthy(a))

Checks == {"crewCount", "name", "isString"}

\* (ship) => ship.crewCount > 0
CrewCountCheck(x) ==
    IF Nullish(x) THEN Threw
    ELSE Returned(Bool(GreaterThanZero(GetProp(x, "crewCount"))))

\* (ship) => ship.name && ship.name.length > 0
NameCheck(x) ==
    IF Nullish(x) THEN Threw
    ELSE LET name == GetProp(x, "name")
         IN  IF ~Truthy(name) THEN Returned(name)
             ELSE Returned(Bool(GreaterThanZero(GetProp(name, "length"))))

\* (x: any) => typeof x === 'string'
IsStringCheck(x) == Returned(Bool(TypeOf(x) = "string"))

\* (engineType) => engineType === 'Fusion Rocket' || engineType === 'Chemical Rocket'
EngineTypeCheck(x) ==
    Returned(Bool(x = Str("Fusion Rocket") \/ x = Str("Chemical Rocket")))

\* (engines) => engines.safeInAtmosphere === false || engines.type === 'Chemical Rocket'
SafeInAtmosphereCheck(x) ==
    IF Nullish(x) THEN Threw
    ELSE Returned(Bool(\/ GetProp(x, "safeInAtmosphere") = False
                       \/ GetProp(x, "type") = Str("Chemical Rocket")))

\* (name) => name && name.length > 0
CoolNameCheck(x) ==
    IF ~Truthy(x) THEN Returned(x)
    ELSE Returned(Bool(GreaterThanZero(GetProp(x, "length"))))

\* x < 10 (of the strings of the model only the empty one is numeric)
LessThanTen(x) ==
    CASE x.t = "number" -> x.n < 10
      [] x.t = "boolean" -> TRUE
      [] x.t = "null" -> TRUE
      [] x.t = "string" -> x.s = ""
      [] OTHER -> FALSE

\* x => x.children.length < 10
TooManyChildrenCheck(x) ==
    IF Nullish(x) THEN Threw
    ELSE LET children == GetProp(x, "children")
         IN  IF Nullish(children) THEN Threw
             ELSE Returned(Bool(LessThanTen(GetProp(children, "length"))))

\* check(x); calling a check that is undefined throws a TypeError
CheckResult(check, x) ==
    CASE check = "crewCount" -> CrewCountCheck(x)
      [] check = "name" -> NameCheck(x)
      [] check = "isString" -> IsStringCheck(x)
      [] check = "engineType" -> EngineTypeCheck(x)
      [] check = "safeInAtmosphere" -> SafeInAtmosphereCheck(x)
      [] check = "coolName" -> CoolNameCheck(x)
      [] check = "tooManyChildren" -> TooManyChildrenCheck(x)
      [] OTHER -> Threw

\* `${x}`: the string a template literal makes of a value
TemplateString(x) ==
    CASE x.t = "string" -> x.s
      [] x.t = "number" -> ToString(x.n)
      [] x.t = "boolean" -> IF x.n = 1 THEN "true" ELSE "false"
      [] x.t = "object" -> "[object Object]"
      [] OTHER -> x.t

\* x => x.children.length + ' is way too many children!'
TooManyChildrenMessage(x) ==
    IF Nullish(x) THEN Threw
    ELSE LET children == GetProp(x, "children")
         IN  IF Nullish(children) THEN Threw
             ELSE Returned(TemplateString(GetProp(children, "length"))
                               \o " is way too many children!")

\* errorMessageBuilder(x), the builders being named after the check they come with
ErrorMessage(emb, x) ==
    CASE emb = "crewCount" -> Returned("Spaceships need a crew!")
      [] emb = "name" -> Returned("Spaceships need cool names!")
      [] emb = "isString" ->
            Returned("Expected value of type string, but got type " \o TypeOf(x))
      [] emb = "engineType" ->
            Returned(TemplateString(x) \o " is not a valid engine type")
      [] emb = "safeInAtmosphere" ->
            Returned("Only chemical rockets are possibly safe in the atmosphere")
      [] emb = "coolName" -> Returned("Spaceships need cool names")
      [] emb = "tooManyChildren" -> TooManyChildrenMessage(x)
      [] OTHER -> Threw

(***************************************************************************)
(* Validators.  A validator is a closure; the heap `validators` holds the  *)
(* closures built so far and a validator is named by its index.  `base`    *)
(* and `rule` are the captured validators (0: none); a rule given as a     *)
(* (check, errorMessageBuilder) pair is the validatorFor(check, emb) that  *)
(* withRule / withRuleFor make of it, held in `check` and `emb`.           *)
(* `builder` tells whether makeValidatorBuilder attached the chain methods.*)
(***************************************************************************)
Node(kind, base, key, rule, check, emb, builder) ==
    [kind |-> kind, base |-> base, key |-> key, rule |-> rule,
     check |-> check, emb |-> emb, builder |-> builder]

LogEntry(op, name, arg) == [op |-> op, name |-> name, arg |-> arg]

Outcome(st, res, errs, log) == [st |-> st, res |-> res, errs |-> errs, log |-> log]

\* variant: the empty validator accepts only objects
EvalIdentityObjectsOnly(x, ec, errs, log, p) ==
    Outcome("ok", Bool(x.t = "object"), errs, log)

\* the validator validatorFor() returns when check or errorMessageBuilder is undefined
EvalIdentity(x, ec, errs, log, p) == Outcome("ok", True, errs, log)

\* variant: the entry is put in front of the collector (unshift for push)
EvalCheckUnshift(check, emb, x, ec, errs, log, p) ==
    LET valid == CheckResult(check, x)
        log1 == Append(log, LogEntry("check", check, x))
    IN  IF valid.threw THEN Outcome("throw", Undefined, errs, log1)
        ELSE IF ec /\ ~Truthy(valid.v)
        THEN LET msg == ErrorMessage(emb, x)
                 log2 == Append(log1, LogEntry("emb", emb, x))
             IN  IF msg.threw THEN Outcome("throw", Undefined, errs, log2)
                 ELSE Outcome("ok", valid.v,
                              <<[path |-> p, error |-> msg.v]>> \o errs, log2)
        ELSE Outcome("ok", valid.v, errs, log1)

\* variant: the push is not guarded by errorCollector !== undefined, so a
\* failing check without a collector ends in a TypeError
EvalCheckUnguardedPush(check, emb, x, ec, errs, log, p) ==
    LET valid == CheckResult(check, x)
        log1 == Append(log, LogEntry("check", check, x))
    IN  IF valid.threw THEN Outcome("throw", Undefined, errs, log1)
        ELSE IF ~Truthy(valid.v)
        THEN LET msg == ErrorMessage(emb, x)
                 log2 == Append(log1, LogEntry("emb", emb, x))
             IN  IF msg.threw \/ ~ec THEN Outcome("throw", Undefined, errs, log2)
                 ELSE Outcome("ok", valid.v,
                              Append(errs, [path |-> p, error |-> msg.v]), log2)
        ELSE Outcome("ok", valid.v, errs, log1)

\* variant (the earlier validatorFor of rules.ts, lines 342-361): the error
\* is pushed whenever a collector is given, whether or not the check passed
EvalCheckAlwaysPush(check, emb, x, ec, errs, log, p) ==
    LET valid == CheckResult(check, x)
        log1 == Append(log, LogEntry("check", check, x))
    IN  IF valid.threw THEN Outcome("throw", Undefined, errs, log1)
        ELSE IF ec
        THEN LET msg == ErrorMessage(emb, x)
                 log2 == Append(log1, LogEntry("emb", emb, x))
             IN  IF msg.threw THEN Outcome("throw", Undefined, errs, log2)
                 ELSE Outcome("ok", valid.v,
                              Append(errs, [path |-> p, error |-> msg.v]), log2)
        ELSE Outcome("ok", valid.v, errs, log1)

\* the validator validatorFor(check, errorMessageBuilder) returns
EvalCheck(check, emb, x, ec, errs, log, p) ==
    LET valid == CheckResult(check, x)
        log1 == Append(log, LogEntry("check", check, x))
    IN  IF valid.threw THEN Outcome("throw", Undefined, errs, log1)
        ELSE IF ec /\ ~Truthy(valid.v)
        THEN LET msg == ErrorMessage(emb, x)
                 log2 == Append(log1, LogEntry("emb", emb, x))
             IN  IF msg.threw THEN Outcome("throw", Undefined, errs, log2)
                 ELSE Outcome("ok", valid.v,
                              Append(errs, [path |-> p, error |-> msg.v]), log2)
        ELSE Outcome("ok", valid.v, errs, log1)

RECURSIVE Eval(_, _, _, _, _, _, _)

\* the call rule(...) of addRule and subValidator(...) of addSubValidator
EvalRule(vs, node, x, ec, errs, log, p) ==
    IF node.rule = 0 THEN EvalCheck(node.check, node.emb, x, ec, errs, log, p)
    ELSE Eval(vs, node.rule, x, ec, errs, log, p)

\* variant: a rule that throws is taken as a rule that fails
EvalAddRuleCatching(vs, node, x, ec, errs, log, p) ==
    LET attempt == EvalRule(vs, node, x, ec, errs, log, PathOrEmpty(p))
        ruleResult == IF attempt.st = "throw"
                      THEN Outcome("ok", False, attempt.errs, attempt.log)
                      ELSE attempt
        baseValidatorResult ==
            Eval(vs, node.base, x, ec, ruleResult.errs, ruleResult.log, PathOrEmpty(p))
    IN  IF baseValidatorResult.st = "throw" THEN baseValidatorResult
        ELSE Outcome("ok", NotNot(And(ruleResult.res, baseValidatorResult.res)),
                     baseValidatorResult.errs, baseValidatorResult.log)

\* variant: the base validator is called before the rule
EvalAddRuleBaseFirst(vs, node, x, ec, errs, log, p) ==
    LET baseValidatorResult == Eval(vs, node.base, x, ec, errs, log, PathOrEmpty(p))
    IN  IF baseValidatorResult.st = "throw" THEN baseValidatorResult
        ELSE LET ruleResult ==
                     EvalRule(vs, node, x, ec, baseValidatorResult.errs,
                              baseValidatorResult.log, PathOrEmpty(p))
             IN  IF ruleResult.st = "throw" THEN ruleResult
                 ELSE Outcome("ok",
                              NotNot(And(ruleResult.res, baseValidatorResult.res)),
                              ruleResult.errs, ruleResult.log)

\* variant: the verdict of the base validator is left out of the conjunction
EvalAddRuleIgnoringBase(vs, node, x, ec, errs, log, p) ==
    LET ruleResult == EvalRule(vs, node, x, ec, errs, log, PathOrEmpty(p))
    IN  IF ruleResult.st = "throw" THEN ruleResult
        ELSE LET baseValidatorResult ==
                     Eval(vs, node.base, x, ec, ruleResult.errs, ruleResult.log,
                          PathOrEmpty(p))
             IN  IF baseValidatorResult.st = "throw" THEN baseValidatorResult
                 ELSE Outcome("ok", NotNot(ruleResult.res),
                              baseValidatorResult.errs, baseValidatorResult.log)

\* the closure addRule returns
EvalAddRule(vs, node, x, ec, errs, log, p) ==
    LET ruleResult == EvalRule(vs, node, x, ec, errs, log, PathOrEmpty(p))
    IN  IF ruleResult.st = "throw" THEN ruleResult
        ELSE LET baseValidatorResult ==
                     Eval(vs, node.base, x, ec, ruleResult.errs, ruleResult.log,
                          PathOrEmpty(p))
             IN  IF baseValidatorResult.st = "throw" THEN baseValidatorResult
                 ELSE Outcome("ok",
                              NotNot(And(ruleResult.res, baseValidatorResult.res)),
                              baseValidatorResult.errs, baseValidatorResult.log)

\* variant: x == null, which also takes undefined for the absent value
EvalOptionLooseEquality(vs, node, x, ec, errs, log, p) ==
    IF Nullish(x) THEN Outcome("ok", True, errs, log)
    ELSE Eval(vs, node.base, x, ec, errs, log, p)

\* the closure optionValidator returns
EvalOption(vs, node, x, ec, errs, log, p) ==
    IF x.t = "null" THEN Outcome("ok", True, errs, log)
    ELSE Eval(vs, node.base, x, ec, errs, log, p)

\* variant (the earlier addSubValidator of rules.ts, lines 331-340): x[key]
\* is read and validated without asking whether the property exists
EvalAddSubValidatorNoPresenceCheck(vs, node, x, ec, errs, log, p) ==
    LET subValidatorPath == joinObjectPaths(p, node.key)
    IN  IF Nullish(x) THEN Outcome("throw", Undefined, errs, log)
        ELSE LET subValidatorResult ==
                     EvalRule(vs, node, GetProp(x, node.key), ec, errs,
                              Append(log, LogEntry("get", node.key, x)),
                              subValidatorPath)
             IN  IF subValidatorResult.st = "throw" THEN subValidatorResult
                 ELSE LET baseValidatorResult ==
                              Eval(vs, node.base, x, ec, subValidatorResult.errs,
                                   subValidatorResult.log, p)
                      IN  IF baseValidatorResult.st = "throw" THEN baseValidatorResult
                          ELSE Outcome("ok",
                                       NotNot(And(subValidatorResult.res,
                                                  baseValidatorResult.res)),
                                       baseValidatorResult.errs, baseValidatorResult.log)

\* the closure addSubValidator returns
EvalAddSubValidator(vs, node, x, ec, errs, log, p) ==
    LET subValidatorPath == joinObjectPaths(p, node.key)
    IN  IF Nullish(x) THEN Outcome("throw", Undefined, errs, log)
        ELSE LET subValidatorResult ==
                     IF HasOwnProperty(x, node.key)
                     THEN EvalRule(vs, node, GetProp(x, node.key), ec, errs,
                                   Append(log, LogEntry("get", node.key, x)),
                                   subValidatorPath)
                     ELSE Outcome("ok", False, errs, log)
             IN  IF subValidatorResult.st = "throw" THEN subValidatorResult
                 ELSE LET baseValidatorResult ==
                              Eval(vs, node.base, x, ec, subValidatorResult.errs,
                                   subValidatorResult.log, p)
                      IN  IF baseValidatorResult.st = "throw" THEN baseValidatorResult
                          ELSE Outcome("ok",
                                       NotNot(And(subValidatorResult.res,
                                                  baseValidatorResult.res)),
                                       baseValidatorResult.errs, baseValidatorResult.log)

\* validator(value, errorCollector, path): ec tells whether a collector is
\* passed, errs is its contents, log the caller-supplied functions invoked
Eval(vs, id, x, ec, errs, log, p) ==
    LET node == vs[id]
    IN  CASE node.kind = "identity" -> EvalIdentity(x, ec, errs, log, p)
          [] node.kind = "check" -> EvalCheck(node.check, node.emb, x, ec, errs, log, p)
          [] node.kind = "addRule" -> EvalAddRule(vs, node, x, ec, errs, log, p)
          [] node.kind = "option" -> EvalOption(vs, node, x, ec, errs, log, p)
          [] node.kind = "addSubValidator" ->
                EvalAddSubValidator(vs, node, x, ec, errs, log, p)

(***************************************************************************)
(* The inputs of the model: the subjects, root paths and field keys the    *)
(* validators are built for and applied to.                                *)
(***************************************************************************)
Keys == {"name", "engines"}

Subjects ==
    { Null, Undefined, Num(127), Str("abc"),
      Obj(<<>>),
      Obj([name |-> Str(""), crewCount |-> Num(0)]),
      Obj([name |-> Str("Spaceship McAwesome"), crewCount |-> Num(470),
           engines |-> Obj([name |-> Str("Fusion Rocket")])]),
      Obj([name |-> Num(127), engines |-> Obj([name |-> Null])]) }

Paths == { NoPath, Path(""), Path("spaceship") }

\* how the caller supplies the collector: not at all, or a new empty array
Modes == {"none", "fresh"}

\* the checks the fluent chains of SpecChain are built from
ChainChecks == {"name", "isString"}

NoCall ==
    [id |-> 0, x |-> Undefined, mode |-> "none", path |-> NoPath,
     before |-> <<>>, st |-> "ok", res |-> Undefined, errs |-> <<>>, log |-> <<>>]

Ids == 1..Len(validators)

\* the caller is between two validation calls
Idle == call.id = 0

Init ==
    /\ validators = <<>>
    /\ errorCollector = <<>>
    /\ call = NoCall

\* a combinator returns a new closure; the closures built before are untouched
NewValidator(vs, node) == Append(vs, node)

\* variant: a builder that adds the rule to the receiver itself; the receiver
\* becomes the composed validator and its former closure moves to a new slot
makeValidatorBuilderInPlace(vs, node) ==
    IF node.base = 0 THEN NewValidator(vs, [node EXCEPT !.builder = TRUE])
    ELSE NewValidator(
             [vs EXCEPT ![node.base] =
                 [node EXCEPT !.builder = TRUE, !.base = Len(vs) + 1]],
             vs[node.base])

\* makeValidatorBuilder attaches withRule and withRuleFor to the closure
makeValidatorBuilder(vs, node) == NewValidator(vs, [node EXCEPT !.builder = TRUE])

\* validatorFor()
ValidatorFor ==
    /\ Idle
    /\ validators' = makeValidatorBuilder(validators,
                         Node("identity", 0, "", 0, "", "", FALSE))
    /\ UNCHANGED <<errorCollector, call>>

\* validatorFor(check, errorMessageBuilder)
ValidatorForCheck(check) ==
    /\ Idle
    /\ validators' = makeValidatorBuilder(validators,
                         Node("check", 0, "", 0, check, check, FALSE))
    /\ UNCHANGED <<errorCollector, call>>

\* validators[b].withRule(check, errorMessageBuilder)
WithRule(b, check) ==
    /\ Idle
    /\ validators[b].builder
    /\ validators' = makeValidatorBuilder(validators,
                         Node("addRule", b, "", 0, check, check, FALSE))
    /\ UNCHANGED <<errorCollector, call>>

\* validators[b].withRule(validators[r])
WithRuleValidator(b, r) ==
    /\ Idle
    /\ validators[b].builder
    /\ validators' = makeValidatorBuilder(validators,
                         Node("addRule", b, "", r, "", "", FALSE))
    /\ UNCHANGED <<errorCollector, call>>

\* validators[b].withRuleFor(key, check, errorMessageBuilder)
WithRuleFor(b, key, check) ==
    /\ Idle
    /\ validators[b].builder
    /\ validators' = makeValidatorBuilder(validators,
                         Node("addSubValidator", b, key, 0, check, check, FALSE))
    /\ UNCHANGED <<errorCollector, call>>

\* validators[b].withRuleFor(key, validators[r])
WithRuleForValidator(b, key, r) ==
    /\ Idle
    /\ validators[b].builder
    /\ validators' = makeValidatorBuilder(validators,
                         Node("addSubValidator", b, key, r, "", "", FALSE))
    /\ UNCHANGED <<errorCollector, call>>

\* optionValidator(validators[b]): a plain closure, no chain methods attached
OptionValidator(b) ==
    /\ Idle
    /\ validators' = NewValidator(validators,
                         Node("option", b, "", 0, "", "", FALSE))
    /\ UNCHANGED <<errorCollector, call>>

\* const errorCollector = [] followed by validators[id](x),
\* validators[id](x, errorCollector) or validators[id](x, errorCollector, path)
Call(id, x, mode, p) ==
    LET r == Eval(validators, id, x, mode # "none", <<>>, <<>>, p)
    IN  /\ Idle
        /\ errorCollector' = r.errs
        /\ call' = [id |-> id, x |-> x, mode |-> mode, path |-> p,
                    before |-> <<>>, st |-> r.st, res |-> r.res,
                    errs |-> r.errs, log |-> r.log]
        /\ UNCHANGED validators

\* the caller has looked at the verdict and the collector and drops both
Discard ==
    /\ ~Idle
    /\ call' = NoCall
    /\ errorCollector' = <<>>
    /\ UNCHANGED validators

Build ==
    \/ ValidatorFor
    \/ \E check \in Checks : ValidatorForCheck(check)
    \/ \E b \in Ids, check \in Checks : WithRule(b, check)
    \/ \E b \in Ids, r \in Ids : WithRuleValidator(b, r)
    \/ \E b \in Ids, key \in Keys, check \in Checks : WithRuleFor(b, key, check)
    \/ \E b \in Ids, key \in Keys, r \in Ids : WithRuleForValidator(b, key, r)
    \/ \E b \in Ids : OptionValidator(b)

Next ==
    \/ Len(validators) < MaxValidators /\ Build
    \/ \E id \in Ids, x \in Subjects, mode \in Modes, p \in Paths : Call(id, x, mode, p)
    \/ Discard

Spec == Init /\ [][Next]_vars

\* the fluent chains validatorFor().withRule(...).withRuleFor(...)..., every
\* validator of which may also serve as the base of another chain
BuildChain ==
    \/ Len(validators) = 0 /\ ValidatorFor
    \/ \E b \in Ids, check \in ChainChecks : WithRule(b, check)
    \/ \E b \in Ids, key \in Keys, check \in ChainChecks : WithRuleFor(b, key, check)
    \/ \E b \in Ids : OptionValidator(b)

NextChain ==
    \/ Len(validators) < MaxChain /\ BuildChain
    \/ \E id \in Ids, x \in Subjects, mode \in Modes, p \in Paths : Call(id, x, mode, p)
    \/ Discard

SpecChain == Init /\ [][NextChain]_vars

(***************************************************************************)
(* Notions the properties are stated with.                                 *)
(***************************************************************************)
\* the validator the last call was made on
Called == validators[call.id]

\* what the caller observes of a call: an exception, or the verdict
Verdict(o) ==
    IF o.st = "throw" THEN "throw" ELSE IF Truthy(o.res) THEN "true" ELSE "false"

\* validators[id] is a chain validatorFor().withRule/withRuleFor(...)... of
\* (check, errorMessageBuilder) rules
RECURSIVE IsChain(_, _)
IsChain(vs, id) ==
    \/ vs[id].kind = "identity"
    \/ /\ vs[id].kind \in {"addRule", "addSubValidator"}
       /\ vs[id].rule = 0
       /\ IsChain(vs, vs[id].base)

\* the rules of a chain, in the order they were added
RECURSIVE ChainRules(_, _)
ChainRules(vs, id) ==
    IF vs[id].kind = "identity" THEN <<>>
    ELSE Append(ChainRules(vs, vs[id].base),
                [key |-> vs[id].key, check |-> vs[id].check])

\* a rule taken alone holds on x: a whole-object rule when its check accepts
\* x, a field rule when the property exists and its check accepts the value
RuleHolds(rule, x) ==
    IF rule.key = ""
    THEN LET c == CheckResult(rule.check, x)
         IN  ~c.threw /\ Truthy(c.v)
    ELSE /\ ~Nullish(x)
         /\ HasOwnProperty(x, rule.key)
         /\ LET c == CheckResult(rule.check, GetProp(x, rule.key))
            IN  ~c.threw /\ Truthy(c.v)

\* the heap holding the chain that adds the rules rs in their order
RECURSIVE ChainOf(_)
ChainOf(rs) ==
    IF Len(rs) = 0
    THEN makeValidatorBuilder(<<>>, Node("identity", 0, "", 0, "", "", FALSE))
    ELSE LET vs == ChainOf(SubSeq(rs, 1, Len(rs) - 1))
             r == rs[Len(rs)]
         IN  makeValidatorBuilder(vs,
                 Node(IF r.key = "" THEN "addRule" ELSE "addSubValidator",
                      Len(vs), r.key, 0, r.check, r.check, FALSE))

\* the outcome of the same call made on the chain of the rules rs
CallOnChain(rs) ==
    LET vs == ChainOf(rs)
    IN  Eval(vs, Len(vs), call.x, call.mode # "none", <<>>, <<>>, call.path)

\* the evaluations of caller-supplied checks the call made, as indices of its log
CheckEvents == { i \in 1..Len(call.log) : call.log[i].op = "check" }

\* the check evaluated at log index i returned a falsy value
FailedAt(i) ==
    LET c == CheckResult(call.log[i].name, call.log[i].arg)
    IN  ~c.threw /\ ~Truthy(c.v)

(***************************************************************************)
(* C1 - Identity law: the validator validatorFor() returns true for every  *)
(* subject (objects, 127, null, undefined, ...) and appends nothing to the *)
(* collector, whether or not a collector and/or a path is supplied.        *)
(***************************************************************************)
C1_IdentityLaw ==
    (~Idle /\ Called.kind = "identity") =>
        /\ call.st = "ok"
        /\ call.res = True
        /\ call.errs = <<>>
        /\ errorCollector = <<>>

C1_Witness ==
    /\ ~Idle
    /\ Called.kind = "identity"
    /\ call.x = Num(127)
    /\ call.mode = "fresh"
    /\ call.path = Path("spaceship")
    /\ call.res = True

(***************************************************************************)
(* C2 - Conjunction law: a chain of n rules returns true exactly when      *)
(* every one of its rules, taken alone, holds on the subject (a field rule *)
(* holds when the property exists and its check passes), and the verdict   *)
(* is the same for every order in which the same rules are chained.        *)
(***************************************************************************)
C2_ConjunctionLaw ==
    (~Idle /\ IsChain(validators, call.id)) =>
        LET rs == ChainRules(validators, call.id)
        IN  /\ (call.st = "ok" /\ call.res = True)
                  <=> (\A i \in 1..Len(rs) : RuleHolds(rs[i], call.x))
            /\ call.st = "ok" => call.res \in {True, False}
            /\ \A f \in Permutations(1..Len(rs)) :
                  Verdict(CallOnChain([i \in 1..Len(rs) |-> rs[f[i]]])) = Verdict(call)

C2_Witness ==
    /\ ~Idle
    /\ IsChain(validators, call.id)
    /\ LET rs == ChainRules(validators, call.id)
       IN  /\ Len(rs) = 2
           /\ rs[1] # rs[2]
           /\ RuleHolds(rs[1], call.x)
           /\ ~RuleHolds(rs[2], call.x)
    /\ call.res = False

(***************************************************************************)
(* C3 - Complete error collection: every rule of a chain is evaluated and  *)
(* each rule that fails appends exactly one entry, so that a call with a   *)
(* collector gains as many entries as the chain has failing rules (n when  *)
(* all n fail).                                                            *)
(***************************************************************************)
C3_OneEntryPerFailingRule ==
    (~Idle /\ IsChain(validators, call.id) /\ call.mode = "fresh" /\ call.st = "ok") =>
        LET rs == ChainRules(validators, call.id)
        IN  Len(call.errs) =
                Cardinality({ i \in 1..Len(rs) : ~RuleHolds(rs[i], call.x) })

(***************************************************************************)
(* C4 - The collector never holds an entry for a rule that passed: each    *)
(* entry appended by a call is the message of a check that returned a      *)
(* falsy value during that call, one entry per such evaluation, and a call *)
(* whose verdict is true leaves the collector unchanged.                   *)
(***************************************************************************)
C4_NoEntryForPassingRule ==
    ~Idle =>
        LET failed == { i \in CheckEvents : FailedAt(i) }
        IN  /\ \A k \in 1..Len(call.errs) :
                  \E i \in failed :
                      call.errs[k].error =
                          ErrorMessage(call.log[i].name, call.log[i].arg).v
            /\ Len(call.errs) <= Cardinality(failed)
            /\ (call.st = "ok" /\ Truthy(call.res)) => call.errs = <<>>
            /\ errorCollector = call.errs

C4_Witness ==
    /\ ~Idle
    /\ call.mode = "fresh"
    /\ Called.kind = "addRule"
    /\ \E i \in CheckEvents : ~FailedAt(i)
    /\ \E i \in CheckEvents : FailedAt(i)
    /\ Len(call.errs) = 1

\* the dot-join of the root path argument, when given, and the keys traversed
DotJoin(root, keys) == Path(JoinDot(IF root.def THEN <<root.s>> \o keys ELSE keys))

\* the call read x[key] for the field rule of the validator called
ReadField ==
    \E i \in 1..Len(call.log) :
        /\ call.log[i].op = "get"
        /\ call.log[i].name = Called.key
        /\ call.log[i].arg = call.x

\* what validators[id] does on every input: exception or verdict, and entries
Behaviour(vs, id) ==
    [x \in Subjects, mode \in Modes, p \in Paths |->
        LET o == Eval(vs, id, x, mode # "none", <<>>, <<>>, p)
        IN  <<o.st, o.res, o.errs>>]

(***************************************************************************)
(* C5 - Path-prefix law: the path of every entry appended by a chain is    *)
(* the dot-join of the root path argument, when one is given, and the      *)
(* field keys traversed down to the failing rule (none for a whole-object  *)
(* rule, the key for a field rule), without an empty or extra segment.     *)
(***************************************************************************)
C5_PathPrefixLaw ==
    (~Idle /\ IsChain(validators, call.id)) =>
        LET rs == ChainRules(validators, call.id)
            lawful == { DotJoin(call.path, <<>>) } \cup
                      { DotJoin(call.path, <<rs[i].key>>) :
                            i \in { j \in 1..Len(rs) : rs[j].key # "" } }
        IN  \A k \in 1..Len(call.errs) : call.errs[k].path \in lawful

C7_MissingPropertyError ==
    (/\ ~Idle
     /\ Called.kind = "addSubValidator"
     /\ call.mode = "fresh"
     /\ (Nullish(call.x) \/ ~HasOwnProperty(call.x, Called.key))) =>
        Len(call.errs) =
            1 + Len(Eval(validators, Called.base, call.x, TRUE, <<>>, <<>>,
                         call.path).errs)

(***************************************************************************)
(* C8 - A withRuleFor(key, ...) validator applied to a subject that is not *)
(* object-shaped (null, undefined, a number, a string) reports a           *)
(* validation failure: it returns false, does not throw and does not       *)
(* evaluate the field's check.                                             *)
(***************************************************************************)
C8_NonObjectIsValidationFailure ==
    (~Idle /\ Called.kind = "addSubValidator" /\ call.x.t # "object") =>
        /\ call.st = "ok"
        /\ call.res = False
        /\ ~ReadField

(***************************************************************************)
(* C9 - Non-mutation law: deriving a validator with withRule, withRuleFor  *)
(* or optionValidator changes the behaviour of no validator built before:  *)
(* the base, and the validators derived earlier from the same base, give   *)
(* the same verdict and the same entries for every subject and path.       *)
(***************************************************************************)
C9_NonMutation ==
    [][validators' # validators =>
          \A id \in Ids : Behaviour(validators', id) = Behaviour(validators, id)]_vars

C9_Witness ==
    /\ ~Idle
    /\ \E d \in Ids :
          /\ call.id < d
          /\ Called.base # 0
          /\ validators[d].base = Called.base
    /\ call.mode = "fresh"
    /\ call.res = False
    /\ Len(call.errs) = 1

(***************************************************************************)
(* C10 - Optional law: optionValidator(B) returns true and appends nothing *)
(* when the subject is exactly null; for every other subject, undefined    *)
(* included, it gives B's verdict and appends B's entries for the same     *)
(* collector and path.                                                     *)
(***************************************************************************)
C10_OptionalLaw ==
    (~Idle /\ Called.kind = "option") =>
        IF call.x = Null
        THEN /\ call.st = "ok"
             /\ call.res = True
             /\ call.errs = <<>>
             /\ call.log = <<>>
        ELSE LET b == Eval(validators, Called.base, call.x, call.mode # "none",
                           <<>>, <<>>, call.path)
             IN  /\ call.st = b.st
                 /\ call.res = b.res
                 /\ call.errs = b.errs

C10_Witness ==
    /\ ~Idle
    /\ Called.kind = "option"
    /\ validators[Called.base].kind # "identity"
    /\ call.x = Undefined
    /\ call.mode = "fresh"
    /\ call.res = False
    /\ Len(call.errs) = 1

(***************************************************************************)
(* C11 - validatorFor(check, messageBuilder) called directly returns the   *)
(* check's result and, when the check fails and a collector is given,      *)
(* appends exactly one entry whose error is messageBuilder(subject) and    *)
(* whose path is the path argument, or the empty string when no path       *)
(* argument was passed; otherwise it appends nothing.                      *)
(***************************************************************************)
C11_DirectRuleValidator ==
    (~Idle /\ Called.kind = "check" /\ call.st = "ok") =>
        LET valid == CheckResult(Called.check, call.x)
        IN  /\ call.res = valid.v
            /\ IF call.mode = "fresh" /\ ~Truthy(valid.v)
               THEN call.errs =
                        << [path |-> IF call.path.def THEN call.path ELSE Path(""),
                            error |-> ErrorMessage(Called.emb, call.x).v] >>
               ELSE call.errs = <<>>

\* the validator id is made of validatorFor, withRule and withRuleFor only,
\* and so is every validator it was given as a rule
RECURSIVE RuleBuilt(_, _)
RuleBuilt(vs, id) ==
    /\ vs[id].kind # "option"
    /\ vs[id].base # 0 => RuleBuilt(vs, vs[id].base)
    /\ vs[id].rule # 0 => RuleBuilt(vs, vs[id].rule)

(***************************************************************************)
(* C12 - Whenever a call with a collector on a validator made only of      *)
(* validatorFor, withRule and withRuleFor returns false, the collector has *)
(* gained at least one entry, and it holds an entry for every check that   *)
(* was found to fail during the call.                                      *)
(***************************************************************************)
C12_FalseVerdictIsExplained ==
    (~Idle /\ RuleBuilt(validators, call.id) /\ call.mode = "fresh"
           /\ call.st = "ok") =>
        /\ ~Truthy(call.res) => Len(call.errs) >= 1
        /\ Len(call.errs) >= Cardinality({ i \in CheckEvents : FailedAt(i) })

(***************************************************************************)
(* C13 - Every validator produced anywhere, by validatorFor, withRule,     *)
(* withRuleFor or optionValidator, exposes withRule and withRuleFor.       *)
(***************************************************************************)
C13_EveryValidatorIsABuilder ==
    \A id \in Ids : validators[id].builder

(***************************************************************************)
(* The nested validators of the test-suite (part_001, lines 313-332):      *)
(* engineValidator is validators[3] and spaceshipValidator, which holds    *)
(* engineValidator as the rule of its field 'engines', is validators[6].   *)
(***************************************************************************)
Fixture ==
    LET v1 == makeValidatorBuilder(<<>>, Node("identity", 0, "", 0, "", "", FALSE))
        v2 == makeValidatorBuilder(v1,
                  Node("addSubValidator", 1, "type", 0,
                       "engineType", "engineType", FALSE))
        v3 == makeValidatorBuilder(v2,
                  Node("addRule", 2, "", 0,
                       "safeInAtmosphere", "safeInAtmosphere", FALSE))
        v4 == makeValidatorBuilder(v3, Node("identity", 0, "", 0, "", "", FALSE))
        v5 == makeValidatorBuilder(v4,
                  Node("addSubValidator", 4, "name", 0, "coolName", "coolName", FALSE))
    IN  makeValidatorBuilder(v5, Node("addSubValidator", 5, "engines", 3, "", "", FALSE))

\* the engines and spaceships of the test-suite (properties no rule reads
\* are left out), and values that are no spaceship
FixtureSubjects ==
    { Null, Obj(<<>>),
      Obj([type |-> Str("Chemical Rocket"), safeInAtmosphere |-> True]),
      Obj([type |-> Str("Reactionless"), safeInAtmosphere |-> True]),
      Obj([name |-> Str("Spaceship McAwesome"), crewCount |-> Num(470),
           engines |-> Obj([type |-> Str("Fusion Rocket"),
                            safeInAtmosphere |-> False])]),
      Obj([name |-> Str("Awesome McCoolship"),
           engines |-> Obj([type |-> Str("Reactionless")])]),
      Obj([name |-> Str(""),
           engines |-> Obj([type |-> Str("Reactionless"),
                            safeInAtmosphere |-> True])]),
      Obj([name |-> Str("Awesome McCoolship"), engines |-> Null]) }

InitFixture ==
    /\ validators = Fixture
    /\ errorCollector = <<>>
    /\ call = NoCall

\* the longest collector the caller passes on to a further call
MaxShared == 1

\* the caller has looked at the verdict and keeps the collector array
Keep ==
    /\ ~Idle
    /\ call' = NoCall
    /\ UNCHANGED <<validators, errorCollector>>

\* how the caller of a further call uses the array kept: it is left out of
\* the call, or it is the collector of the call
SharedModes == {"kept", "same"}

\* validators[id](x, undefined, path) or validators[id](x, errorCollector, path),
\* errorCollector being the array that earlier calls have filled
CallShared(id, x, mode, p) ==
    LET r == Eval(validators, id, x, mode = "same", errorCollector, <<>>, p)
    IN  /\ Idle
        /\ errorCollector' = r.errs
        /\ call' = [id |-> id, x |-> x, mode |-> mode, path |-> p,
                    before |-> errorCollector, st |-> r.st, res |-> r.res,
                    errs |-> r.errs, log |-> r.log]
        /\ UNCHANGED validators

NextFixture ==
    \/ \E id \in Ids, x \in FixtureSubjects, mode \in Modes, p \in Paths :
          Call(id, x, mode, p)
    \/ /\ Len(errorCollector) <= MaxShared
       /\ \E id \in Ids, x \in FixtureSubjects, mode \in SharedModes, p \in Paths :
             CallShared(id, x, mode, p)
    \/ Keep
    \/ Discard

SpecFixture == InitFixture /\ [][NextFixture]_vars

\* the entries with an absent path read as the empty path: both denote the
\* root of the validation call
RootAsEmpty(errs) ==
    [k \in DOMAIN errs |->
        [errs[k] EXCEPT !.path = IF @.def THEN @ ELSE Path("")]]

(***************************************************************************)
(* C14 - Path scoping: a withRule layer evaluates its rule and its base    *)
(* with the path it received, adding no segment; a withRuleFor(key) layer  *)
(* gives the path extended by key to the field's check or sub-validator    *)
(* only, and evaluates its base on the whole subject with the path it      *)
(* received.  The entries of a call on a layer are therefore those of its  *)
(* rule followed by those of its base, each called with these paths (an    *)
(* absent path and the empty path both standing for the root).             *)
(***************************************************************************)
C14_PathScoping ==
    (~Idle /\ call.mode \in Modes /\ call.st = "ok") =>
        LET ec == call.mode # "none"
            base == Eval(validators, Called.base, call.x, ec, <<>>, <<>>, call.path)
        IN  /\ Called.kind = "addRule" =>
                  RootAsEmpty(call.errs) =
                      RootAsEmpty(EvalRule(validators, Called, call.x, ec, <<>>, <<>>,
                                           call.path).errs \o base.errs)
            /\ (Called.kind = "addSubValidator" /\ ReadField) =>
                  RootAsEmpty(call.errs) =
                      RootAsEmpty(EvalRule(validators, Called,
                                           GetProp(call.x, Called.key), ec, <<>>, <<>>,
                                           DotJoin(call.path, <<Called.key>>)).errs
                                  \o base.errs)

\* the caller-supplied checks the call evaluated, in the order of evaluation
ChecksEvaluated ==
    LET evs == SelectSeq(call.log, LAMBDA e : e.op = "check")
    IN  [k \in DOMAIN evs |-> evs[k].name]

\* the sequence s from its last element to its first
Reversed(s) == [k \in DOMAIN s |-> s[Len(s) + 1 - k]]

(***************************************************************************)
(* C15 - Order of evaluation: in a chain of whole-object rules r1..rn,     *)
(* added in that order, the rule added last is evaluated first, and when   *)
(* all rules fail the collector receives their entries in the order        *)
(* rn, ..., r1.                                                            *)
(***************************************************************************)
C15_LastAddedFirst ==
    (~Idle /\ IsChain(validators, call.id) /\ call.st = "ok") =>
        LET rs == ChainRules(validators, call.id)
        IN  (\A i \in 1..Len(rs) : rs[i].key = "") =>
                /\ ChecksEvaluated = Reversed([i \in 1..Len(rs) |-> rs[i].check])
                /\ (call.mode = "fresh" /\ \A i \in 1..Len(rs) : ~RuleHolds(rs[i], call.x)) =>
                      [k \in DOMAIN call.errs |-> call.errs[k].error] =
                          Reversed([i \in 1..Len(rs) |->
                                       ErrorMessage(rs[i].check, call.x).v])

C15_Witness ==
    /\ ~Idle
    /\ IsChain(validators, call.id)
    /\ call.mode = "fresh"
    /\ LET rs == ChainRules(validators, call.id)
       IN  /\ Len(rs) = 2
           /\ rs[1].key = "" /\ rs[2].key = ""
           /\ rs[1].check = "name" /\ rs[2].check = "isString"
    /\ Len(call.errs) = 2
    /\ call.errs[1].error = ErrorMessage("isString", call.x).v
    /\ call.errs[2].error = ErrorMessage("name", call.x).v

(***************************************************************************)
(* Rules whose check and message builder are chosen apart from each other, *)
(* among them the pair of the documentation of ValidatorBuilder (part_000, *)
(* lines 105-108), both functions of which throw on a value without        *)
(* children.                                                               *)
(***************************************************************************)
MaxPairs == 3

PairChecks == {"isString", "tooManyChildren"}
PairEmbs == {"isString", "tooManyChildren"}

\* [] stands for an array without elements: its own property is length
PairSubjects ==
    { Null, Num(127), Str("abc"), Obj(<<>>),
      Obj([children |-> Obj([length |-> Num(0)])]),
      Obj([children |-> Obj([length |-> Num(12)])]) }

\* variant: the check alone is enough to make a rule of it
validatorForCheckAlone(check, emb) ==
    Node(IF check # "" THEN "check" ELSE "identity", 0, "", 0, check, emb, FALSE)

\* the closure validatorFor(check, errorMessageBuilder) makes, "" standing
\* for an argument that was not passed
validatorFor(check, emb) ==
    Node(IF check # "" /\ emb # "" THEN "check" ELSE "identity",
         0, "", 0, check, emb, FALSE)

\* validatorFor(), validatorFor(check), validatorFor(undefined, errorMessageBuilder)
\* or validatorFor(check, errorMessageBuilder)
ValidatorForArgs(check, emb) ==
    /\ Idle
    /\ validators' = makeValidatorBuilder(validators, validatorFor(check, emb))
    /\ UNCHANGED <<errorCollector, call>>

\* validators[b].withRule(check, errorMessageBuilder)
WithRulePair(b, check, emb) ==
    /\ Idle
    /\ validators[b].builder
    /\ validators' = makeValidatorBuilder(validators,
                         Node("addRule", b, "", 0, check, emb, FALSE))
    /\ UNCHANGED <<errorCollector, call>>

BuildPairs ==
    \/ /\ Len(validators) = 0
       /\ \E check \in PairChecks \cup {""}, emb \in PairEmbs \cup {""} :
             ValidatorForArgs(check, emb)
    \/ \E b \in Ids, check \in PairChecks, emb \in PairEmbs : WithRulePair(b, check, emb)
    \/ \E b \in Ids : WithRuleFor(b, "children", "isString")
    \/ \E b \in Ids : OptionValidator(b)

NextPairs ==
    \/ Len(validators) < MaxPairs /\ BuildPairs
    \/ \E id \in Ids, x \in PairSubjects, mode \in Modes, p \in Paths :
          Call(id, x, mode, p)
    \/ Discard

SpecPairs == Init /\ [][NextPairs]_vars

\* validators[id] is made by validatorFor and withRule(check, errorMessageBuilder)
RECURSIVE RulesOnly(_, _)
RulesOnly(vs, id) ==
    \/ vs[id].kind \in {"identity", "check"}
    \/ /\ vs[id].kind = "addRule"
       /\ vs[id].rule = 0
       /\ RulesOnly(vs, vs[id].base)

\* the (check, errorMessageBuilder) rules of a validator made by validatorFor
\* and withRule, in the order a call evaluates them
RECURSIVE RulesInOrder(_, _)
RulesInOrder(vs, id) ==
    CASE vs[id].kind = "check" -> << [check |-> vs[id].check, emb |-> vs[id].emb] >>
      [] vs[id].kind = "addRule" ->
            << [check |-> vs[id].check, emb |-> vs[id].emb] >>
                \o RulesInOrder(vs, vs[id].base)
      [] OTHER -> <<>>

\* the check of the rule throws on x
CheckThrows(rule, x) == CheckResult(rule.check, x).threw

\* the check of the rule returns a falsy value on x
CheckFails(rule, x) ==
    ~CheckThrows(rule, x) /\ ~Truthy(CheckResult(rule.check, x).v)

\* evaluating the rule on x throws: in its check, or in its message builder,
\* which is called when the check fails and a collector is given
RuleThrows(rule, x, ec) ==
    \/ CheckThrows(rule, x)
    \/ CheckFails(rule, x) /\ ec /\ ErrorMessage(rule.emb, x).threw

(***************************************************************************)
(* C16 - Exception propagation: when a check or a message builder throws   *)
(* during a call, the exception reaches the caller and there is no         *)
(* verdict; no rule that comes after the throwing one in the order of      *)
(* evaluation is evaluated; the entries appended before the throw remain   *)
(* in the collector; and a call throws only if one of its rules does.      *)
(***************************************************************************)
C16_ExceptionPropagation ==
    (~Idle /\ RulesOnly(validators, call.id)) =>
        LET rs == RulesInOrder(validators, call.id)
            ec == call.mode # "none"
            throwing == { i \in 1..Len(rs) : RuleThrows(rs[i], call.x, ec) }
        IN  IF throwing = {}
            THEN call.st = "ok"
            ELSE LET t == CHOOSE i \in throwing : \A j \in throwing : i <= j
                     failed == SelectSeq(SubSeq(rs, 1, t - 1),
                                         LAMBDA r : CheckFails(r, call.x))
                 IN  /\ call.st = "throw"
                     /\ call.res = Undefined
                     /\ ChecksEvaluated = [k \in 1..t |-> rs[k].check]
                     /\ call.errs =
                            IF ec
                            THEN [k \in DOMAIN failed |->
                                     [path |-> PathOrEmpty(call.path),
                                      error |-> ErrorMessage(failed[k].emb, call.x).v]]
                            ELSE <<>>
                     /\ errorCollector = call.errs

\* the first rule evaluated fails and leaves its entry, the message builder
\* of the second throws, and the third is not evaluated
C16_Witness ==
    /\ ~Idle
    /\ RulesOnly(validators, call.id)
    /\ Len(RulesInOrder(validators, call.id)) = 3
    /\ call.st = "throw"
    /\ Len(call.errs) = 1
    /\ Len(ChecksEvaluated) = 2
    /\ call.log[Len(call.log)].op = "emb"

(***************************************************************************)
(* C17 - A call without a root path and the same call with the root path   *)
(* '' are equivalent: they give the same verdict and the same sequence of  *)
(* entries, with identical path and error fields.                          *)
(***************************************************************************)
C17_AbsentPathIsEmptyPath ==
    (~Idle /\ call.path = NoPath) =>
        LET o == Eval(validators, call.id, call.x, call.mode # "none",
                      <<>>, <<>>, Path(""))
        IN  /\ o.st = call.st
            /\ o.res = call.res
            /\ o.errs = call.errs

\* the call just made, repeated with a new collector (ec) or without one
Recall(ec) ==
    Eval(validators, call.id, call.x, ec, <<>>, <<>>, call.path)

(***************************************************************************)
(* C18 - The verdict does not depend on the collector: for every validator *)
(* made with validatorFor, withRule, withRuleFor and optionValidator,      *)
(* every subject and every path, the call with a collector and the call    *)
(* without one have the same outcome, and the call without a collector has *)
(* no side effect.                                                         *)
(***************************************************************************)
C18_SameOutcomeWithAndWithoutCollector ==
    ~Idle =>
        /\ Recall(TRUE).st = Recall(FALSE).st
        /\ Recall(TRUE).res = Recall(FALSE).res
        /\ call.mode = "none" => (call.errs = <<>> /\ errorCollector = <<>>)

(***************************************************************************)
(* C18, amended - Whenever the call with a collector returns, the call     *)
(* without one returns the same value; the call without a collector can    *)
(* return where the other throws only when that throw comes from a message *)
(* builder, which is called only if a collector is given; and the call     *)
(* without a collector has no side effect: it appends nothing and calls no *)
(* message builder.                                                        *)
(***************************************************************************)
C18_VerdictIndependentOfCollector ==
    ~Idle =>
        LET with == Recall(TRUE)
            without == Recall(FALSE)
        IN  /\ with.st = "ok" => (without.st = "ok" /\ without.res = with.res)
            /\ without.st = "ok" =>
                  \/ with.st = "ok"
                  \/ with.log[Len(with.log)].op = "emb"
            /\ without.errs = <<>>
            /\ \A i \in 1..Len(without.log) : without.log[i].op # "emb"
            /\ call.mode = "none" =>
                  /\ call.st = without.st /\ call.res = without.res
                  /\ call.errs = <<>>
                  /\ errorCollector = <<>>

C18_Witness ==
    /\ ~Idle
    /\ Called.kind = "option"
    /\ call.mode = "none"
    /\ call.res = False
    /\ Len(Recall(TRUE).errs) = 1
    /\ Recall(TRUE).res = False
    /\ errorCollector = <<>>

\* the sequence s is the beginning of the sequence t
IsPrefix(s, t) == Len(s) <= Len(t) /\ SubSeq(t, 1, Len(s)) = s

(***************************************************************************)
(* C19 - The collector is append-only across the calls that share it:      *)
(* every entry it held before a call is still there after the call,        *)
(* unmodified and at the same index, new entries come only at the end, a   *)
(* call made without the array leaves it as it was, and a call modifies no *)
(* validator.                                                              *)
(***************************************************************************)
C19_AppendOnly ==
    [][call'.id # 0 =>
          /\ call'.mode = "fresh" => call'.before = <<>>
          /\ call'.mode = "same" => call'.before = errorCollector
          /\ IsPrefix(call'.before, errorCollector')
          /\ call'.mode = "kept" => errorCollector' = errorCollector
          /\ validators' = validators]_vars

C19_Witness ==
    /\ ~Idle
    /\ call.mode = "same"
    /\ call.id = 6
    /\ Len(call.before) = 1
    /\ call.before[1].path = Path("spaceship.type")
    /\ Len(errorCollector) = 4
    /\ errorCollector[1] = call.before[1]
    /\ errorCollector[2].path = Path("engines")

(***************************************************************************)
(* C20 - validatorFor called with only one of its two arguments (a check   *)
(* without a message builder, or a message builder without a check) makes  *)
(* the identity validator: it returns true for every subject, appends      *)
(* nothing, and the check supplied is never evaluated.                     *)
(***************************************************************************)
C20_OneArgumentIsIdentity ==
    (~Idle /\ Called.base = 0 /\ (Called.check = "") # (Called.emb = "")) =>
        /\ call.st = "ok"
        /\ call.res = True
        /\ call.errs = <<>>
        /\ errorCollector = <<>>
        /\ call.log = <<>>

C20_Witness ==
    /\ ~Idle
    /\ Called.base = 0
    /\ Called.check = "tooManyChildren"
    /\ Called.emb = ""
    /\ call.x = Num(127)
    /\ call.mode = "fresh"
    /\ call.res = True

====
